---- MODULE Spec2Model ----
(***************************************************************************)
(* Model of the ID-card fraud detection agent: the LangGraph workflow of   *)
(* src/main.py (agent_node, tool_node, router, upload_file) and the tools  *)
(* of src/tools (analysis, duplicate check, insert, notify).               *)
(***************************************************************************)
EXTENDS Integers, Sequences, FiniteSets, TLC

(* ------------------------------ bounds -------------------------------- *)
\* most tool calls a free Reasoner emits in one run
MaxCalls == 2
\* most tool calls in one Reasoner response
MaxBatch == 2

(* ------------------------- program constants -------------------------- *)
\* {"recursion_limit": 15}
RecursionLimit == 15

DefaultResponse == "Agent did not produce a final response."
ErrorPrefix == "An error occurred: "
MalformedMsg == "Error: The 'data' argument was a malformed string and could not be parsed."
RecursionMsg == "Recursion limit of 15 reached without hitting a stop condition."
ToolNotFoundMsg == "Tool not found."
ValidationMsg == "validation error"
ReasonerMsg == "reasoner invocation failed"
ParseRaisedMsg == "unhashable type: 'list'"
AttributeMsg == "'int' object has no attribute 'split'"
NikExistsMsg == "This NIK already exists in the database."
BirthParseMsg == "Failed to parse 'Tempat/Tgl Lahir' field."
BindingMsg == "You did not supply a value for binding parameter :date_of_creation."

\* variant: a registry that also holds send_sms_tool
toolsWithSms == {"analyze_id_card_tool", "check_duplicate_nik_tool",
                 "insert_id_card_tool", "notify_fraud_tool", "send_sms_tool"}

\* the registry: tools = [analyze_id_card_tool, check_duplicate_nik_tool, ...]
tools == {"analyze_id_card_tool", "check_duplicate_nik_tool",
          "insert_id_card_tool", "notify_fraud_tool"}

(* ------------------------------ values -------------------------------- *)
\* a Python value of a field: a str (sequence of characters), None, or an int
S(chars) == [t |-> "str", s |-> chars]
None == [t |-> "none", s |-> <<>>]
IntVal == [t |-> "int", s |-> <<>>]

\* Python truthiness of a field value
Truthy(v) == v.t = "int" \/ (v.t = "str" /\ v.s # <<>>)

\* dict.get(key): None when the key is absent
Get(d, k) == IF k \in DOMAIN d THEN d[k] ELSE None

\* the whitespace characters str.strip() removes
IsSpace(c) == c \in {" ", "\t"}

RECURSIVE LStrip(_)
LStrip(s) == IF s # <<>> /\ IsSpace(Head(s)) THEN LStrip(Tail(s)) ELSE s

RECURSIVE RStrip(_)
RStrip(s) ==
    IF s # <<>> /\ IsSpace(s[Len(s)]) THEN RStrip(SubSeq(s, 1, Len(s) - 1)) ELSE s

\* str.strip()
Strip(s) == RStrip(LStrip(s))

\* index of the first occurrence of sep in s, 0 when there is none
RECURSIVE FindFrom(_, _, _)
FindFrom(s, sep, i) ==
    IF i > Len(s) THEN 0 ELSE IF s[i] = sep THEN i ELSE FindFrom(s, sep, i + 1)

\* str.split(sep): the list of the pieces between the separators
RECURSIVE Split(_, _)
Split(s, sep) ==
    LET i == FindFrom(s, sep, 1)
    IN  IF i = 0 THEN <<s>>
        ELSE <<SubSeq(s, 1, i - 1)>> \o Split(SubSeq(s, i + 1, Len(s)), sep)

\* sep.join(parts)
RECURSIVE Join(_, _)
Join(parts, sep) ==
    IF parts = <<>> THEN <<>>
    ELSE IF Len(parts) = 1 THEN parts[1]
    ELSE parts[1] \o <<sep>> \o Join(Tail(parts), sep)

(* ------------------------------ mapper -------------------------------- *)
\* key_mapping: AI output key -> database column
KeyMapping ==
    [ nik |-> "NIK", nama |-> "Nama", jenis_kelamin |-> "Jenis Kelamin",
      gol_darah |-> "Gol. Darah", alamat |-> "Alamat", rt_rw |-> "RT/RW",
      kel_desa |-> "Kel/Desa", kecamatan |-> "Kecamatan", agama |-> "Agama",
      status_perkawinan |-> "Status Perkawinan",
      kewarganegaraan |-> "Kewarganegaraan",
      berlaku_hingga |-> "Berlaku Hingga",
      place_of_creation |-> "Place and Date of Creation" ]

BirthKey == "Tempat/Tgl Lahir"

required_db_keys ==
    << "nik", "nama", "tempat_lahir", "tanggal_lahir", "jenis_kelamin", "alamat",
       "rt_rw", "kel_desa", "kecamatan", "agama", "status_perkawinan",
       "kewarganegaraan", "berlaku_hingga" >>

\* the columns the INSERT statement binds by name
InsertColumns ==
    { "nik", "nama", "tempat_lahir", "tanggal_lahir", "jenis_kelamin", "gol_darah",
      "alamat", "rt_rw", "kel_desa", "kecamatan", "agama", "status_perkawinan",
      "kewarganegaraan", "berlaku_hingga", "place_of_creation", "date_of_creation" }

\* f with key k set to v (k may be new)
Put(f, k, v) == [x \in DOMAIN f \cup {k} |-> IF x = k THEN v ELSE f[x]]

\* db_record after the rename loop
Renamed(data) == [c \in DOMAIN KeyMapping |-> Get(data, KeyMapping[c])]

\* does the birthplace/date block raise (a truthy value that is not a str)
BirthRaises(data) ==
    BirthKey \in DOMAIN data /\ Truthy(data[BirthKey]) /\ data[BirthKey].t # "str"

\* variant: the birth date is everything after the first comma
AfterBirthRest(data, rec) ==
    IF BirthKey \in DOMAIN data /\ Truthy(data[BirthKey])
    THEN LET parts == Split(data[BirthKey].s, ",")
             r1 == Put(rec, "tempat_lahir", S(Strip(parts[1])))
         IN  IF Len(parts) > 1
             THEN Put(r1, "tanggal_lahir", S(Strip(Join(Tail(parts), ","))))
             ELSE Put(r1, "tanggal_lahir", None)
    ELSE rec

\* db_record after the birthplace/date block
AfterBirth(data, rec) ==
    IF BirthKey \in DOMAIN data /\ Truthy(data[BirthKey])
    THEN LET parts == Split(data[BirthKey].s, ",")
             r1 == Put(rec, "tempat_lahir", S(Strip(parts[1])))
         IN  IF Len(parts) > 1
             THEN Put(r1, "tanggal_lahir", S(Strip(parts[2])))
             ELSE Put(r1, "tanggal_lahir", None)
    ELSE rec

\* does the place/date of creation block raise (a truthy value that is not a str)
CreationRaises(rec) ==
    Truthy(Get(rec, "place_of_creation")) /\ rec["place_of_creation"].t # "str"

\* db_record after the place/date of creation block
AfterCreation(rec) ==
    IF Truthy(Get(rec, "place_of_creation"))
    THEN LET parts == Split(rec["place_of_creation"].s, " ")
             r1 == Put(rec, "place_of_creation", S(Strip(parts[1])))
         IN  IF Len(parts) > 1
             THEN Put(r1, "date_of_creation", S(Strip(Join(Tail(parts), " "))))
             ELSE r1
    ELSE rec

\* missing_keys = [key for key in required_db_keys if not db_record.get(key)]
MissingKeys(rec) ==
    SelectSeq(required_db_keys, LAMBDA k : ~Truthy(Get(rec, k)))

\* the record the mapper hands to the INSERT statement
DbRecord(data) == AfterCreation(AfterBirth(data, Renamed(data)))

(* --------------------------- sample payloads -------------------------- *)
\* identity numbers (a one-character text stands for the 16 digits)
NIKs == {"A", "B"}

\* the text of a string token
Text(tok) == <<tok>>

\* a well-formed extraction result for identity number n
ValidFields(n) ==
    [ k \in { "NIK", "Nama", "Jenis Kelamin", "Gol. Darah", "Alamat", "RT/RW",
              "Kel/Desa", "Kecamatan", "Agama", "Status Perkawinan",
              "Kewarganegaraan", "Berlaku Hingga", "Place and Date of Creation",
              "Tempat/Tgl Lahir" } |->
        CASE k = "NIK" -> S(Text(n))
          [] k = "Tempat/Tgl Lahir" -> S(<<"J", ",", " ", "1">>)
          [] k = "Place and Date of Creation" -> S(<<"J", " ", "2">>)
          [] OTHER -> S(<<"x">>) ]

\* f without key k
Without(f, k) == [x \in DOMAIN f \ {k} |-> f[x]]

\* the keys of an extraction result
FieldNames == DOMAIN ValidFields("A")

\* the characters of a text
Chars(text) ==
    CASE text = "J,1,2" -> <<"J", ",", "1", ",", "2">>
      [] text = ",1" -> <<",", "1">>
      [] text = "J," -> <<"J", ",">>
      [] text = " J , 1 " -> <<" ", "J", " ", ",", " ", "1", " ">>
      [] text = "J  2" -> <<"J", " ", " ", "2">>
      [] text = "J 2 3" -> <<"J", " ", "2", " ", "3">>
      [] text = " J 2" -> <<" ", "J", " ", "2">>
      [] text = "J " -> <<"J", " ">>
      [] text = "J\t2" -> <<"J", "\t", "2">>

\* values of the birthplace/date field and of the place/date of creation field
BirthTexts == {"J,1,2", ",1", "J,", " J , 1 "}
CreationTexts == {"J  2", "J 2 3", " J 2", "J ", "J\t2"}

\* the dict payloads a Reasoner may pass as `data`, by name
DictNames ==
    {"dictA", "dictB", "dictNoName", "dictNoComma", "dictNoSpace",
     "dictIntBirth", "dictIntPlace", "dictNoneBlood"}
    \cup { "without " \o k : k \in FieldNames }
    \cup { "birth=" \o t : t \in BirthTexts }
    \cup { "creation=" \o t : t \in CreationTexts }

DictOf(name) ==
    CASE name = "dictA" -> ValidFields("A")
      [] name = "dictB" -> ValidFields("B")
      [] name = "dictNoName" -> Without(ValidFields("A"), "Nama")
      [] name = "dictNoComma" -> Put(ValidFields("A"), "Tempat/Tgl Lahir", S(<<"J">>))
      [] name = "dictNoSpace" ->
             Put(ValidFields("A"), "Place and Date of Creation", S(<<"J">>))
      [] name = "dictIntBirth" -> Put(ValidFields("A"), "Tempat/Tgl Lahir", IntVal)
      [] name = "dictIntPlace" ->
             Put(ValidFields("A"), "Place and Date of Creation", IntVal)
      [] name = "dictNoneBlood" -> Put(ValidFields("A"), "Gol. Darah", None)
      [] \E k \in FieldNames : name = "without " \o k ->
             Without(ValidFields("A"),
                     CHOOSE k \in FieldNames : name = "without " \o k)
      [] \E t \in BirthTexts : name = "birth=" \o t ->
             Put(ValidFields("A"), "Tempat/Tgl Lahir",
                 S(Chars(CHOOSE t \in BirthTexts : name = "birth=" \o t)))
      [] \E t \in CreationTexts : name = "creation=" \o t ->
             Put(ValidFields("A"), "Place and Date of Creation",
                 S(Chars(CHOOSE t \in CreationTexts : name = "creation=" \o t)))

\* an argument value: its Python type and a token naming the value
Arg(type, val) == [type |-> type, val |-> val]

\* str(d) of payloads: the Python literal text of the dict
ReprDictA == "{'NIK': 'A', 'Nama': 'x', ...}"
ReprDictB == "{'NIK': 'B', 'Nama': 'x', ...}"
ReprDictNoName == "{'NIK': 'A', 'Jenis Kelamin': 'x', ...}"
ReprDictNoneBlood == "{'NIK': 'A', 'Nama': 'x', 'Gol. Darah': None, ...}"
\* json.dumps of the payload with a null blood type
JsonDictNullBlood == "{\"NIK\": \"A\", \"Nama\": \"x\", \"Gol. Darah\": null, ...}"

\* str(d) of the payload named d
Repr ==
    [ dictA |-> ReprDictA, dictB |-> ReprDictB, dictNoName |-> ReprDictNoName,
      dictNoneBlood |-> ReprDictNoneBlood ]

\* the strings a Reasoner may pass as `data`
DataStrings == {ReprDictA, "{bad", "[1, 2]", "{[1]: 2}"}

\* ast.literal_eval(text): a value, an exception the dispatcher catches
\* (ValueError, SyntaxError), or another exception (TypeError)
LiteralEval(text) ==
    CASE text = ReprDictA -> [kind |-> "value", value |-> Arg("dict", "dictA")]
      [] text = ReprDictB -> [kind |-> "value", value |-> Arg("dict", "dictB")]
      [] text = ReprDictNoName ->
             [kind |-> "value", value |-> Arg("dict", "dictNoName")]
      [] text = ReprDictNoneBlood ->
             [kind |-> "value", value |-> Arg("dict", "dictNoneBlood")]
      [] text = JsonDictNullBlood -> [kind |-> "ValueError", value |-> Arg("str", text)]
      [] text = "[1, 2]" -> [kind |-> "value", value |-> Arg("list", "[1, 2]")]
      [] text = "{bad" -> [kind |-> "SyntaxError", value |-> Arg("str", text)]
      [] text = "{[1]: 2}" -> [kind |-> "TypeError", value |-> Arg("str", text)]

(* ------------------------------- tools -------------------------------- *)
NoExc == ""

Fmt(fmt, args) == [fmt |-> fmt, args |-> args]

\* what a tool invocation gives: an exception or an output, and the store after it
Raise(msg, db) == [exc |-> msg, out |-> [status |-> "raised"], db |-> db]
Return(out, db) == [exc |-> NoExc, out |-> out, db |-> db]

\* the verdicts the vision model may produce (json.loads of its answer)
Verdicts ==
    { [status |-> "success", data |-> "dictA"],
      [status |-> "potential_fraud", reason |-> "NIK mismatch"],
      [status |-> "image_quality_failure", reason |-> "Blur"],
      [status |-> "error", error |-> Fmt("analysis failed", <<>>)] }

\* the environment of one call: the verdict of the vision model and whether the
\* external collaborator (database, SMTP server) fails
Envs == [verdict : Verdicts, fault : BOOLEAN]

\* pydantic validation of the arguments against the tool's args_schema
ArgsValid(name, args) ==
    CASE name = "analyze_id_card_tool" ->
             "image_path" \in DOMAIN args /\ args["image_path"].type = "str"
      [] name = "check_duplicate_nik_tool" ->
             "nik" \in DOMAIN args /\ args["nik"].type = "str"
      [] name = "insert_id_card_tool" ->
             "data" \in DOMAIN args /\ args["data"].type = "dict"
      [] name = "notify_fraud_tool" ->
             "reason" \in DOMAIN args /\ args["reason"].type = "str"
      [] OTHER -> TRUE

analyze_id_card_tool(args, e, db) == Return(e.verdict, db)

\* variant: the SELECT has no WHERE clause
check_duplicate_nik_toolAnyRow(args, e, db) ==
    LET nik == args["nik"].val
    IN  IF e.fault
        THEN Return([status |-> "error", error |-> Fmt("database error", <<>>)], db)
        ELSE IF db # {}
        THEN Return([status |-> "duplicate", nik |-> nik], db)
        ELSE Return([status |-> "not_found", nik |-> nik], db)

check_duplicate_nik_tool(args, e, db) ==
    LET nik == args["nik"].val
    IN  IF e.fault
        THEN Return([status |-> "error", error |-> Fmt("database error", <<>>)], db)
        ELSE IF \E r \in db : r["nik"] = S(Text(nik))
        THEN Return([status |-> "duplicate", nik |-> nik], db)
        ELSE Return([status |-> "not_found", nik |-> nik], db)

\* the mapping part of insert_id_card_tool on data: whether the birthplace/date
\* block raises (and is caught), whether the place/date of creation block raises,
\* the missing required columns, and the record bound to the INSERT statement
Mapper(data) ==
    [ birthRaises |-> BirthRaises(data),
      creationRaises |-> ~BirthRaises(data)
                         /\ CreationRaises(AfterBirth(data, Renamed(data))),
      missing |-> IF BirthRaises(data)
                     \/ CreationRaises(AfterBirth(data, Renamed(data)))
                  THEN <<>> ELSE MissingKeys(DbRecord(data)),
      rec |-> IF BirthRaises(data)
                 \/ CreationRaises(AfterBirth(data, Renamed(data)))
              THEN Renamed(data) ELSE DbRecord(data) ]

\* the mapper applied to each sample payload
Mapped == [d \in DictNames |-> Mapper(DictOf(d))]

\* variant: the record is written before the required columns are checked
insert_id_card_toolPartial(args, e, db) ==
    LET m == Mapped[args["data"].val]
        rec == m.rec
        missing == m.missing
    IN  IF m.birthRaises
        THEN Return([status |-> "error", error |-> Fmt(BirthParseMsg, <<>>)], db)
        ELSE IF m.creationRaises THEN Raise(AttributeMsg, db)
        ELSE IF missing # <<>>
        THEN Return([status |-> "error",
                     error |-> Fmt("After parsing, required fields are still missing: ",
                                   missing)], db \cup {rec})
        ELSE IF e.fault
        THEN Return([status |-> "error", error |-> Fmt("database error", <<>>)], db)
        ELSE IF ~(InsertColumns \subseteq DOMAIN rec)
        THEN Return([status |-> "error", error |-> Fmt(BindingMsg, <<>>)], db)
        ELSE IF \E r \in db : r["nik"] = rec["nik"]
        THEN Return([status |-> "error", error |-> Fmt(NikExistsMsg, <<>>)], db)
        ELSE Return([status |-> "success",
                     message |-> [fmt |-> "Record added successfully.",
                                  nik |-> rec["nik"]]],
                    db \cup {rec})

insert_id_card_tool(args, e, db) ==
    LET m == Mapped[args["data"].val]
        rec == m.rec
        missing == m.missing
    IN  IF m.birthRaises
        THEN Return([status |-> "error", error |-> Fmt(BirthParseMsg, <<>>)], db)
        ELSE IF m.creationRaises THEN Raise(AttributeMsg, db)
        ELSE IF missing # <<>>
        THEN Return([status |-> "error",
                     error |-> Fmt("After parsing, required fields are still missing: ",
                                   missing)], db)
        ELSE IF e.fault
        THEN Return([status |-> "error", error |-> Fmt("database error", <<>>)], db)
        ELSE IF ~(InsertColumns \subseteq DOMAIN rec)
        THEN Return([status |-> "error", error |-> Fmt(BindingMsg, <<>>)], db)
        ELSE IF \E r \in db : r["nik"] = rec["nik"]
        THEN Return([status |-> "error", error |-> Fmt(NikExistsMsg, <<>>)], db)
        ELSE Return([status |-> "success",
                     message |-> [fmt |-> "Record added successfully.",
                                  nik |-> rec["nik"]]],
                    db \cup {rec})

notify_fraud_tool(args, e, db) ==
    IF e.fault
    THEN Return([status |-> "error", error |-> Fmt("smtp error", <<>>)], db)
    ELSE Return([status |-> "success",
                 message |-> [fmt |-> "Fraud notification sent.",
                              nik |-> IF "nik" \in DOMAIN args
                                      THEN S(Text(args["nik"].val))
                                      ELSE S(Text("unknown"))]], db)

\* selected_tool.invoke(tool_args)
Invoke(name, args, e, db) ==
    IF ~ArgsValid(name, args) THEN Raise(ValidationMsg, db)
    ELSE CASE name = "analyze_id_card_tool" -> analyze_id_card_tool(args, e, db)
           [] name = "check_duplicate_nik_tool" -> check_duplicate_nik_tool(args, e, db)
           [] name = "insert_id_card_tool" -> insert_id_card_tool(args, e, db)
           [] name = "notify_fraud_tool" -> notify_fraud_tool(args, e, db)
           [] OTHER -> Return([status |-> "success"], db)

(* ------------------------------ messages ------------------------------ *)
\* message content: a text, or str(output) of a tool output
TextOf(t) == [text |-> t]
Str(out) == [repr |-> out]

NoId == 0

HumanMessage(content) ==
    [id |-> NoId, type |-> "human", content |-> TextOf(content),
     tool_calls |-> <<>>, tool_call_id |-> 0]

AIMessage(content, calls) ==
    [id |-> NoId, type |-> "ai", content |-> TextOf(content),
     tool_calls |-> calls, tool_call_id |-> 0]

\* variant: a tool message that does not carry the id of its call
ToolMessageNoEcho(content, callId) ==
    [id |-> NoId, type |-> "tool", content |-> content,
     tool_calls |-> <<>>, tool_call_id |-> 0]

ToolMessage(content, callId) ==
    [id |-> NoId, type |-> "tool", content |-> content,
     tool_calls |-> <<>>, tool_call_id |-> callId]

\* the value of a one-element set
The(set) == CHOOSE x \in set : TRUE

\* variant: every message gets the same id
NewIdReused(n) == 1

\* the id add_messages gives a message that has none (a fresh uuid4); n ids
\* have been given before
NewId(n) == n + 1

\* the messages of right, each without an id given a new one
RECURSIVE WithNewIds(_, _)
WithNewIds(right, n) ==
    IF right = <<>> THEN <<>>
    ELSE IF Head(right).id = NoId
    THEN <<[Head(right) EXCEPT !.id = NewId(n)]>> \o WithNewIds(Tail(right), n + 1)
    ELSE <<Head(right)>> \o WithNewIds(Tail(right), n)

\* the merge of add_messages: a message whose id is already in the list
\* replaces that message, any other message is appended
RECURSIVE Merge(_, _)
Merge(left, right) ==
    IF right = <<>> THEN left
    ELSE LET m == Head(right)
             hit == {i \in 1..Len(left) : left[i].id = m.id}
         IN  The({ Merge(merged, Tail(right)) :
                     merged \in { IF hit = {} THEN Append(left, m)
                                  ELSE [i \in 1..Len(left) |->
                                           IF i \in hit THEN m ELSE left[i]] } })

\* the add_messages reducer of the messages channel; n ids have been given before
add_messages(left, right, n) == Merge(left, WithNewIds(right, n))

(* ------------------------------ tool_node ----------------------------- *)
\* the analysis_result key of a state: missing, None, or a dict
Missing == [kind |-> "missing"]
PyNone == [kind |-> "none"]
Dict(d) == [kind |-> "dict", dict |-> d]

\* variant: a string is never taken for repair
DataIsStrNever(call) == FALSE

\* the 'data' argument of an insert call arrived as a string
DataIsStr(call) ==
    /\ call.name = "insert_id_card_tool"
    /\ "data" \in DOMAIN call.args
    /\ call.args["data"].type = "str"

\* variant: the output of every tool is stored as the analysis result
ToolCallStepWritesAll(call, e, acc) ==
    LET parsed == IF DataIsStr(call)
                  THEN LiteralEval(call.args["data"].val)
                  ELSE [kind |-> "none", value |-> Arg("none", "")]
        tool_args == IF parsed.kind = "value"
                     THEN [call.args EXCEPT !["data"] = parsed.value]
                     ELSE call.args
    IN  IF parsed.kind \in {"ValueError", "SyntaxError"}
        THEN [acc EXCEPT !.outs = Append(@, ToolMessage(TextOf(MalformedMsg), call.id)),
                         !.n = @ + 1]
        ELSE IF parsed.kind = "TypeError"
        THEN [acc EXCEPT !.exc = ParseRaisedMsg, !.n = @ + 1]
        ELSE IF call.name \notin tools
        THEN [acc EXCEPT !.exc = ToolNotFoundMsg, !.n = @ + 1]
        ELSE LET r == Invoke(call.name, tool_args, e, acc.db)
                 logged == Append(acc.log, [name |-> call.name, id |-> call.id,
                                            args |-> tool_args])
             IN  IF r.exc # NoExc
                 THEN [acc EXCEPT !.exc = r.exc, !.log = logged, !.n = @ + 1]
                 ELSE [ exc |-> NoExc,
                        outs |-> Append(acc.outs, ToolMessage(Str(r.out), call.id)),
                        db |-> r.db,
                        analysis_result |->
                            Dict(r.out),
                        log |-> logged,
                        n |-> acc.n + 1 ]

\* one iteration of `for call in tool_calls`; acc is the node's local state:
\* exc (the exception that ended the node, if any), outs (tool_outputs), db,
\* analysis_result (state['analysis_result'] of the node's copy of the state),
\* log (the capability invocations made, in order) and n (iterations begun)
ToolCallStep(call, e, acc) ==
    LET parsed == IF DataIsStr(call)
                  THEN LiteralEval(call.args["data"].val)
                  ELSE [kind |-> "none", value |-> Arg("none", "")]
        tool_args == IF parsed.kind = "value"
                     THEN [call.args EXCEPT !["data"] = parsed.value]
                     ELSE call.args
    IN  IF parsed.kind \in {"ValueError", "SyntaxError"}
        THEN [acc EXCEPT !.outs = Append(@, ToolMessage(TextOf(MalformedMsg), call.id)),
                         !.n = @ + 1]
        ELSE IF parsed.kind = "TypeError"
        THEN [acc EXCEPT !.exc = ParseRaisedMsg, !.n = @ + 1]
        ELSE IF call.name \notin tools
        THEN [acc EXCEPT !.exc = ToolNotFoundMsg, !.n = @ + 1]
        ELSE LET r == Invoke(call.name, tool_args, e, acc.db)
                 logged == Append(acc.log, [name |-> call.name, id |-> call.id,
                                            args |-> tool_args])
             IN  IF r.exc # NoExc
                 THEN [acc EXCEPT !.exc = r.exc, !.log = logged, !.n = @ + 1]
                 ELSE [ exc |-> NoExc,
                        outs |-> Append(acc.outs, ToolMessage(Str(r.out), call.id)),
                        db |-> r.db,
                        analysis_result |->
                            IF call.name = "analyze_id_card_tool"
                            THEN Dict(r.out) ELSE acc.analysis_result,
                        log |-> logged,
                        n |-> acc.n + 1 ]

\* the loop over tool_calls, from call i on; a raised exception ends it
RECURSIVE ToolLoop(_, _, _, _)
ToolLoop(calls, env, i, acc) ==
    IF i > Len(calls) \/ acc.exc # NoExc THEN acc
    ELSE The({ ToolLoop(calls, env, i + 1, next) :
                 next \in {ToolCallStep(calls[i], env[i], acc)} })

\* tool_node(state) run against store db in environment env
tool_node(messages, result, db, env) ==
    ToolLoop(messages[Len(messages)].tool_calls, env, 1,
             [exc |-> NoExc, outs |-> <<>>, db |-> db,
              analysis_result |-> result, log |-> <<>>, n |-> 0])

(* ------------------------------- router ------------------------------- *)
\* variant: only potential_fraud goes to the fraud-notify step
routerFraudOnly(result) ==
    IF result.kind = "none" THEN "AttributeError"
    ELSE LET analysis_status ==
                 IF result.kind = "dict" /\ "status" \in DOMAIN result.dict
                 THEN result.dict.status ELSE "None"
         IN  IF analysis_status = "success" THEN "check_duplicate_nik_tool"
             ELSE IF analysis_status \in {"potential_fraud"}
             THEN "notify_fraud_tool"
             ELSE "agent"

\* router(state): the name of the next step, or the exception it raises
router(result) ==
    IF result.kind = "none" THEN "AttributeError"
    ELSE LET analysis_status ==
                 IF result.kind = "dict" /\ "status" \in DOMAIN result.dict
                 THEN result.dict.status ELSE "None"
         IN  IF analysis_status = "success" THEN "check_duplicate_nik_tool"
             ELSE IF analysis_status \in {"potential_fraud", "image_quality_failure"}
             THEN "notify_fraud_tool"
             ELSE "agent"

\* variant: a response with content ends the run even if it has tool calls
AfterAgentNeedsContent(message) ==
    IF message.tool_calls # <<>> /\ message.content.text = "" THEN "tools" ELSE "END"

\* the conditional edge after the agent node
AfterAgent(message) == IF message.tool_calls # <<>> THEN "tools" ELSE "END"

(* ------------------------------ Reasoner ------------------------------ *)
\* the tool calls (name and arguments) a Reasoner may emit
CallShapes ==
    { [name |-> "analyze_id_card_tool",
       args |-> [image_path |-> Arg("str", "uploads/ktp.png")]],
      [name |-> "check_duplicate_nik_tool", args |-> [nik |-> Arg("str", "A")]],
      [name |-> "notify_fraud_tool",
       args |-> [reason |-> Arg("str", "Duplicate NIK found")]],
      [name |-> "send_sms_tool", args |-> [reason |-> Arg("str", "NIK mismatch")]] }
    \cup { [name |-> "insert_id_card_tool", args |-> [data |-> Arg("dict", d)]] :
          d \in {"dictA", "dictNoName"} }
    \cup { [name |-> "insert_id_card_tool", args |-> [data |-> Arg("str", t)]] :
          t \in DataStrings }

\* the batches of at most n calls
Batches(n) == UNION { [1..k -> CallShapes] : k \in 1..n }

\* the batches a stub Reasoner that always emits tool calls may repeat
StubBatches ==
    { <<[name |-> "check_duplicate_nik_tool", args |-> [nik |-> Arg("str", "A")]]>>,
      <<[name |-> "insert_id_card_tool", args |-> [data |-> Arg("str", "{bad")]],
        [name |-> "insert_id_card_tool", args |-> [data |-> Arg("dict", "dictA")]]>>,
      <<[name |-> "notify_fraud_tool",
         args |-> [reason |-> Arg("str", "Duplicate NIK found")]]>>,
      <<[name |-> "check_duplicate_nik_tool", args |-> [nik |-> Arg("str", "A")]],
        [name |-> "send_sms_tool", args |-> [reason |-> Arg("str", "NIK mismatch")]]>> }

\* the texts a Reasoner may answer with
Contents == {"", "Laporan akhir."}

\* the environments in which a call's outcome differs
EnvsFor(call) ==
    IF call.name = "analyze_id_card_tool" THEN {e \in Envs : ~e.fault}
    ELSE {e \in Envs : e.verdict.status = "error"}

\* the calls of a batch with their ids, n calls having been emitted before
WithIds(batch, n) ==
    [i \in 1..Len(batch) |-> [name |-> batch[i].name, args |-> batch[i].args, id |-> n + i]]

(* ---------------------------- the workflow ---------------------------- *)
\* no analysis run on its own
NoWorld == [kind |-> "none"]

VARIABLES
    pc,               \* the node the graph runs next: "agent", "tools", or "done"
    steps,            \* supersteps executed by graph.stream
    messages,         \* state["messages"], the history
    analysis_result,  \* state["analysis_result"] of the graph state
    final_response,   \* final_response of upload_file
    db,               \* the rows of table id_cards
    stub,             \* the batch a stub Reasoner repeats; <<>> for a free Reasoner
    ncalls,           \* tool calls emitted so far (call ids are 1..ncalls)
    invoked,          \* history variable: the capability invocations made, in order
    lastVerdict,      \* history variable: the output of the latest analysis invocation
    nextId,           \* message ids given so far
    reasonerCalls,    \* history variable: the number of Reasoner invocations
    outcome,          \* history variable: how the run ended ("" while it runs)
    lastDispatch,     \* history variable: tool_outputs and iterations of the latest tool_node
    routeOut,         \* the result of the latest router(state) call
    workflows,        \* concurrent requests: each one's payload, position and results
    writer,           \* the request whose connection holds the database write lock, 0 if none
    world             \* the surroundings of an analysis run on its own: file, model, answer

vars == <<pc, steps, messages, analysis_result, final_response, db, stub, ncalls,
          nextId, invoked, lastVerdict, reasonerCalls, outcome, lastDispatch, routeOut,
          workflows, writer, world>>

\* variant: one superstep more than the limit
WithinBudgetOffByOne == steps <= RecursionLimit

\* the superstep budget of graph.stream is not used up
WithinBudget == steps < RecursionLimit

Response(prefix, text) == [prefix |-> prefix, text |-> text]

\* variant: the except clause leaves the default response
ErrorResponseKeepsDefault(e) == Response("", DefaultResponse)

\* except Exception as e: final_response = f"An error occurred: {e}"
ErrorResponse(e) == Response(ErrorPrefix, e)

\* the store a run starts from: table id_cards as setup_database creates it
InitialStores == { {} }

Init ==
    /\ pc = "agent"
    /\ steps = 0
    /\ messages = add_messages(<<>>, <<HumanMessage("system prompt and file path")>>, 0)
    /\ nextId = 1
    /\ analysis_result = Missing
    /\ final_response = Response("", DefaultResponse)
    /\ db \in InitialStores
    /\ stub \in {<<>>} \cup StubBatches
    /\ ncalls = 0
    /\ invoked = <<>>
    /\ lastVerdict = Missing
    /\ reasonerCalls = 0
    /\ outcome = ""
    /\ lastDispatch = [outs |-> <<>>, n |-> 0]
    /\ routeOut = "none"
    /\ workflows = <<>>
    /\ writer = 0
    /\ world = NoWorld

\* the responses the Reasoner may give now
Responses ==
    IF stub # <<>>
    THEN { [content |-> "", tool_calls |-> WithIds(stub, ncalls)] }
    ELSE { [content |-> c, tool_calls |-> <<>>] : c \in Contents }
         \cup { [content |-> c, tool_calls |-> WithIds(b, ncalls)] :
                  c \in Contents,
                  b \in Batches(IF MaxCalls - ncalls < MaxBatch
                                THEN MaxCalls - ncalls ELSE MaxBatch) }

\* variant: the content of any response without tool calls is taken
OnAgentEventAnyFinal(message, current) ==
    IF message.tool_calls = <<>> THEN Response("", message.content.text) ELSE current

\* the event loop of upload_file on an "agent" event
OnAgentEvent(message, current) ==
    IF message.tool_calls = <<>> /\ message.content.text # ""
    THEN Response("", message.content.text)
    ELSE current

\* one superstep running agent_node, the conditional edge after it and the
\* handling of its event by upload_file
AgentNode ==
    /\ pc = "agent"
    /\ WithinBudget
    /\ \E r \in Responses :
         LET response == AIMessage(r.content, r.tool_calls)
         IN  /\ messages' = add_messages(messages, <<response>>, nextId)
             /\ nextId' = nextId + 1
             /\ pc' = IF AfterAgent(response) = "tools" THEN "tools" ELSE "done"
             /\ final_response' = OnAgentEvent(response, final_response)
             /\ ncalls' = ncalls + Len(r.tool_calls)
             /\ outcome' = IF AfterAgent(response) = "tools" THEN ""
                           ELSE IF r.content # "" THEN "answer" ELSE "silent"
    /\ steps' = steps + 1
    /\ reasonerCalls' = reasonerCalls + 1
    /\ UNCHANGED <<analysis_result, db, stub, invoked, lastVerdict, lastDispatch,
                   routeOut, workflows, writer, world>>

\* variant: the exception of the Reasoner is not caught by upload_file
AgentRaiseEscapes ==
    /\ pc = "agent"
    /\ WithinBudget
    /\ stub = <<>>
    /\ pc' = "crashed"
    /\ final_response' = final_response
    /\ reasonerCalls' = reasonerCalls + 1
    /\ outcome' = "reasoner_error"
    /\ UNCHANGED <<steps, messages, nextId, analysis_result, db, stub, ncalls, invoked,
                   lastVerdict, lastDispatch, routeOut, workflows, writer, world>>

\* llm_with_tools.invoke raises: the exception leaves graph.stream
AgentRaise ==
    /\ pc = "agent"
    /\ WithinBudget
    /\ stub = <<>>
    /\ pc' = "done"
    /\ final_response' = ErrorResponse(ReasonerMsg)
    /\ reasonerCalls' = reasonerCalls + 1
    /\ outcome' = "reasoner_error"
    /\ UNCHANGED <<steps, messages, nextId, analysis_result, db, stub, ncalls, invoked,
                   lastVerdict, lastDispatch, routeOut, workflows, writer, world>>

\* variant: the tool messages made before the exception are kept
ToolNodePartial ==
    /\ pc = "tools"
    /\ WithinBudget
    /\ LET calls == messages[Len(messages)].tool_calls
       IN  \E env \in [1..Len(calls) -> Envs] :
             /\ \A i \in 1..Len(calls) : env[i] \in EnvsFor(calls[i])
             /\ \E r \in {tool_node(messages, analysis_result, db, env)} :
                    /\ db' = r.db
                    /\ invoked' = invoked \o r.log
                    /\ lastVerdict' = IF r.analysis_result.kind = "dict"
                                      THEN r.analysis_result ELSE lastVerdict
                    /\ lastDispatch' = [outs |-> r.outs, n |-> r.n]
                    /\ IF r.exc # NoExc
                       THEN /\ pc' = "done"
                            /\ final_response' = ErrorResponse(r.exc)
                            /\ outcome' = "tool_error"
                            /\ messages' = add_messages(messages, r.outs, nextId)
                            /\ nextId' = nextId + Len(r.outs)
                            /\ UNCHANGED steps
                       ELSE /\ pc' = "agent"
                            /\ messages' = add_messages(messages, r.outs, nextId)
                            /\ nextId' = nextId + Len(r.outs)
                            /\ steps' = steps + 1
                            /\ UNCHANGED <<final_response, outcome>>
    /\ UNCHANGED <<analysis_result, stub, ncalls, reasonerCalls, routeOut, workflows,
                   writer, world>>

\* one superstep running tool_node; an exception leaves graph.stream and the
\* node's writes are dropped, the effects on the store stay
ToolNode ==
    /\ pc = "tools"
    /\ WithinBudget
    /\ LET calls == messages[Len(messages)].tool_calls
       IN  \E env \in [1..Len(calls) -> Envs] :
             /\ \A i \in 1..Len(calls) : env[i] \in EnvsFor(calls[i])
             /\ \E r \in {tool_node(messages, analysis_result, db, env)} :
                    /\ db' = r.db
                    /\ invoked' = invoked \o r.log
                    /\ lastVerdict' = IF r.analysis_result.kind = "dict"
                                      THEN r.analysis_result ELSE lastVerdict
                    /\ lastDispatch' = [outs |-> r.outs, n |-> r.n]
                    /\ IF r.exc # NoExc
                       THEN /\ pc' = "done"
                            /\ final_response' = ErrorResponse(r.exc)
                            /\ outcome' = "tool_error"
                            /\ UNCHANGED <<messages, steps, nextId>>
                       ELSE /\ pc' = "agent"
                            /\ messages' = add_messages(messages, r.outs, nextId)
                            /\ nextId' = nextId + Len(r.outs)
                            /\ steps' = steps + 1
                            /\ UNCHANGED <<final_response, outcome>>
    /\ UNCHANGED <<analysis_result, stub, ncalls, reasonerCalls, routeOut, workflows,
                   writer, world>>

\* graph.stream with {"recursion_limit": 15}: a node is due after the last
\* allowed superstep, GraphRecursionError leaves graph.stream
RecursionAbort ==
    /\ pc \in {"agent", "tools"}
    /\ ~WithinBudget
    /\ pc' = "done"
    /\ final_response' = ErrorResponse(RecursionMsg)
    /\ outcome' = "budget"
    /\ UNCHANGED <<steps, messages, nextId, analysis_result, db, stub, ncalls, invoked,
                   lastVerdict, reasonerCalls, lastDispatch, routeOut, workflows,
                   writer, world>>

Next == AgentNode \/ AgentRaise \/ ToolNode \/ RecursionAbort

Spec == Init /\ [][Next]_vars

\* the status tags, reasons and data of the dicts given to the router
Statuses == {"success", "potential_fraud", "image_quality_failure", "error", "unknown"}
Reasons == {"Blur", "Glare", "NIK mismatch"}
DataRefs == {"dictA", "dictB"}

\* the values of the analysis_result key given to the router
RouterInputs ==
    {Missing, PyNone}
    \cup { Dict([status |-> st]) : st \in Statuses }
    \cup { Dict([status |-> st, reason |-> r]) : st \in Statuses, r \in Reasons }
    \cup { Dict([status |-> st, data |-> d]) : st \in Statuses, d \in DataRefs }
    \cup { Dict([status |-> st, reason |-> r, data |-> d]) :
             st \in Statuses, r \in Reasons, d \in DataRefs }
    \cup { Dict([reason |-> r]) : r \in Reasons }

RouterInit ==
    /\ pc = "router"
    /\ steps = 0
    /\ messages = add_messages(<<>>, <<HumanMessage("system prompt and file path")>>, 0)
    /\ nextId = 1
    /\ analysis_result \in RouterInputs
    /\ final_response = Response("", DefaultResponse)
    /\ db \in InitialStores
    /\ stub = <<>>
    /\ ncalls = 0
    /\ invoked = <<>>
    /\ lastVerdict = Missing
    /\ reasonerCalls = 0
    /\ outcome = ""
    /\ lastDispatch = [outs |-> <<>>, n |-> 0]
    /\ routeOut = "none"
    /\ workflows = <<>>
    /\ writer = 0
    /\ world = NoWorld

\* router(state) is called on the state
Route ==
    /\ pc = "router"
    /\ routeOut = "none"
    /\ routeOut' = router(analysis_result)
    /\ UNCHANGED <<pc, steps, messages, nextId, analysis_result, final_response, db,
                   stub, ncalls, invoked, lastVerdict, reasonerCalls, outcome,
                   lastDispatch, workflows, writer, world>>

RouterNext == Route

RouterSpec == RouterInit /\ [][RouterNext]_vars

\* runs whose Reasoner is a stub that emits tool calls on every invocation
StubInit == Init /\ stub # <<>>

StubNext == AgentNode \/ ToolNode \/ RecursionAbort

\* graph.stream runs the due node until the graph ends or an exception leaves it
StubSpec == StubInit /\ [][StubNext]_vars /\ WF_vars(StubNext)

(* --------------------- one dispatched insert call --------------------- *)
\* the strings given as `data` to a single insert call
InsertStrings ==
    DataStrings \cup {ReprDictB, ReprDictNoName, ReprDictNoneBlood, JsonDictNullBlood}

\* the insert calls dispatched on their own
InsertCalls ==
    { [name |-> "insert_id_card_tool", args |-> [data |-> Arg("dict", d)]] :
        d \in DictNames }
    \cup { [name |-> "insert_id_card_tool", args |-> [data |-> Arg("str", t)]] :
             t \in InsertStrings }

\* the stores an insert call may meet: the empty table, or the record of A in it
InsertStores == { {}, {DbRecord(ValidFields("A"))} }

\* the workflow after a Reasoner response that holds one insert call
InsertInit ==
    /\ pc = "tools"
    /\ steps = 1
    /\ \E c \in InsertCalls :
         messages = add_messages(
                        add_messages(<<>>, <<HumanMessage("system prompt and file path")>>, 0),
                        <<AIMessage("", WithIds(<<c>>, 0))>>, 1)
    /\ nextId = 2
    /\ analysis_result = Missing
    /\ final_response = Response("", DefaultResponse)
    /\ db \in InsertStores
    /\ stub = <<>>
    /\ ncalls = 1
    /\ invoked = <<>>
    /\ lastVerdict = Missing
    /\ reasonerCalls = 1
    /\ outcome = ""
    /\ lastDispatch = [outs |-> <<>>, n |-> 0]
    /\ routeOut = "none"
    /\ workflows = <<>>
    /\ writer = 0
    /\ world = NoWorld

InsertNext == ToolNode

InsertSpec == InsertInit /\ [][InsertNext]_vars

(* ------------------------- concurrent requests ------------------------ *)
\* the requests served at the same time, each running its own workflow
Requests == 1..2

\* the payloads of the requests: two with the same identity number, one other
ConcPayloads == {"dictA", "dictNoneBlood", "dictB"}

\* the identity number of a payload
NikOf(d) == DictOf(d)["NIK"].s[1]

NoResult == [status |-> "none"]

ConcInit ==
    /\ pc = "concurrent"
    /\ steps = 0
    /\ messages = add_messages(<<>>, <<HumanMessage("system prompt and file path")>>, 0)
    /\ nextId = 1
    /\ analysis_result = Missing
    /\ final_response = Response("", DefaultResponse)
    /\ db \in InitialStores
    /\ stub = <<>>
    /\ ncalls = 0
    /\ invoked = <<>>
    /\ lastVerdict = Missing
    /\ reasonerCalls = 0
    /\ outcome = ""
    /\ lastDispatch = [outs |-> <<>>, n |-> 0]
    /\ routeOut = "none"
    /\ workflows \in [Requests -> { [data |-> d, pc |-> "start", check |-> "",
                                     insert |-> NoResult, pending |-> {}] :
                                       d \in ConcPayloads }]
    /\ writer = 0
    /\ world = NoWorld

\* request w runs check_duplicate_nik_tool: one SELECT on the committed rows
DuplicateCheck(w) ==
    /\ pc = "concurrent"
    /\ workflows[w].pc = "start"
    /\ \E e \in {e \in Envs : e.verdict.status = "error"} :
         \E r \in {check_duplicate_nik_tool(
                       [nik |-> Arg("str", NikOf(workflows[w].data))], e, db)} :
            /\ workflows' = [workflows EXCEPT ![w].pc = "checked",
                                              ![w].check = r.out.status]
            /\ db' = r.db
    /\ UNCHANGED <<pc, steps, messages, nextId, analysis_result, final_response, stub,
                   ncalls, invoked, lastVerdict, reasonerCalls, outcome, lastDispatch,
                   routeOut, writer, world>>

\* variant: the INSERT does not wait for the write lock
InsertExecuteNoLock(w) ==
    /\ pc = "concurrent"
    /\ workflows[w].pc \in {"start", "checked"}
    /\ \E e \in {e \in Envs : e.verdict.status = "error"} :
         \E r \in {insert_id_card_tool(
                       [data |-> Arg("dict", workflows[w].data)], e, db)} :
            IF r.out.status = "success"
            THEN /\ writer' = w
                 /\ workflows' = [workflows EXCEPT ![w].pc = "executed",
                                                   ![w].insert = r.out,
                                                   ![w].pending = r.db \ db]
            ELSE /\ writer' = writer
                 /\ workflows' = [workflows EXCEPT ![w].pc = "done",
                                                   ![w].insert = r.out]
    /\ UNCHANGED <<pc, steps, messages, nextId, analysis_result, final_response, db,
                   stub, ncalls, invoked, lastVerdict, reasonerCalls, outcome,
                   lastDispatch, routeOut, world>>

\* request w runs insert_id_card_tool up to cursor.execute: the INSERT takes
\* the write lock of the database file and checks the UNIQUE constraint on
\* nik; while another connection holds the lock the statement waits, and
\* fails with a database error when the wait times out
InsertExecute(w) ==
    /\ pc = "concurrent"
    /\ workflows[w].pc \in {"start", "checked"}
    /\ \E e \in {e \in Envs : e.verdict.status = "error"} :
         /\ writer # 0 => e.fault
         /\ \E r \in {insert_id_card_tool(
                          [data |-> Arg("dict", workflows[w].data)], e, db)} :
               IF r.out.status = "success"
               THEN /\ writer' = w
                    /\ workflows' = [workflows EXCEPT ![w].pc = "executed",
                                                      ![w].insert = r.out,
                                                      ![w].pending = r.db \ db]
               ELSE /\ writer' = writer
                    /\ workflows' = [workflows EXCEPT ![w].pc = "done",
                                                      ![w].insert = r.out]
    /\ UNCHANGED <<pc, steps, messages, nextId, analysis_result, final_response, db,
                   stub, ncalls, invoked, lastVerdict, reasonerCalls, outcome,
                   lastDispatch, routeOut, world>>

\* conn.commit() of request w: the row becomes visible and the lock is
\* released; a commit that fails gives a database error and the row is
\* rolled back when the connection is closed
InsertCommit(w) ==
    /\ pc = "concurrent"
    /\ workflows[w].pc = "executed"
    /\ \E fault \in BOOLEAN :
         IF fault
         THEN /\ db' = db
              /\ workflows' =
                   [workflows EXCEPT
                      ![w].pc = "done", ![w].pending = {},
                      ![w].insert = [status |-> "error",
                                     error |-> Fmt("database error", <<>>)]]
         ELSE /\ db' = db \cup workflows[w].pending
              /\ workflows' = [workflows EXCEPT ![w].pc = "done", ![w].pending = {}]
    /\ writer' = 0
    /\ UNCHANGED <<pc, steps, messages, nextId, analysis_result, final_response, stub,
                   ncalls, invoked, lastVerdict, reasonerCalls, outcome, lastDispatch,
                   routeOut, world>>

ConcNext == \E w \in Requests : DuplicateCheck(w) \/ InsertExecute(w) \/ InsertCommit(w)

ConcSpec == ConcInit /\ [][ConcNext]_vars

(* ------------------------ one analysis of an image -------------------- *)
\* the JSON values the vision model may write: the four objects its prompt
\* asks for, objects the prompt does not ask for, and a value that is no object
JsonValues ==
    Verdicts
    \cup { [status |-> "success"],
           [status |-> "potential_fraud", reason |-> "NIK mismatch", data |-> "dictA"],
           [status |-> "unknown", reason |-> "Blur"],
           [reason |-> "Blur"],
           [array |-> <<1, 2>>] }

\* the text of a response: a body (a JSON value or another text) between an
\* opening and a closing code fence, either of which may be absent
Bodies == {[json |-> TRUE, value |-> v] : v \in JsonValues}
          \cup {[json |-> FALSE, value |-> [text |-> "Maaf, gambar tidak jelas."]]}
Texts == [prefix : {"", "fence json", "fence"}, body : Bodies,
          suffix : {"", "newline fence", "fence"}]

\* what llm.invoke gives: an exception, a content that is a list of parts, or a text
Replies ==
    {[kind |-> "raise"], [kind |-> "parts"]} \cup {[kind |-> "text", text |-> t] : t \in Texts}

\* the surroundings of one call of the analysis tool
Worlds == [kind : {"world"}, exists : BOOLEAN, init : BOOLEAN, image : BOOLEAN,
           reply : Replies]

ErrorVerdict(msg) == [status |-> "error", error |-> Fmt(msg, <<>>)]

\* response_content after strip() and the removal of the fence: a text that
\* starts with the fence and the word json loses its first 7 and its last 4
\* characters (response_content[7:-4]), which leaves the body when the closing
\* fence is the 4 characters of a newline and the fence, and cuts into the
\* body when it is shorter
Cleaned(t) ==
    IF t.prefix = "fence json"
    THEN [json |-> t.body.json /\ t.suffix = "newline fence", value |-> t.body.value]
    ELSE [json |-> t.body.json /\ t.prefix = "" /\ t.suffix = "", value |-> t.body.value]

\* the body of analyze_id_card_tool in world w: the dict it returns
AnalyzeBody(w) ==
    IF ~w.exists THEN ErrorVerdict("File not found at path: ")
    ELSE IF ~w.init THEN ErrorVerdict("Could not initialize Gemini model. Check API key.")
    ELSE IF ~w.image THEN ErrorVerdict("Invalid or corrupted image file: ")
    ELSE IF w.reply.kind = "raise" THEN ErrorVerdict("model invocation failed")
    ELSE IF w.reply.kind = "parts"
    THEN ErrorVerdict("'list' object has no attribute 'strip'")
    ELSE LET c == Cleaned(w.reply.text)
         IN  IF c.json THEN c.value
             ELSE [status |-> "error",
                   error |-> Fmt("Failed to parse the model's response as JSON.", <<>>),
                   raw_response |-> w.reply.text]

AnalyzeInit ==
    /\ pc = "analyze"
    /\ steps = 0
    /\ messages = add_messages(<<>>, <<HumanMessage("system prompt and file path")>>, 0)
    /\ nextId = 1
    /\ analysis_result = Missing
    /\ final_response = Response("", DefaultResponse)
    /\ db \in InitialStores
    /\ stub = <<>>
    /\ ncalls = 0
    /\ invoked = <<>>
    /\ lastVerdict = Missing
    /\ reasonerCalls = 0
    /\ outcome = ""
    /\ lastDispatch = [outs |-> <<>>, n |-> 0]
    /\ routeOut = "none"
    /\ workflows = <<>>
    /\ writer = 0
    /\ world \in Worlds

\* analyze_id_card_tool.invoke({"image_path": ...}) in the world of the state;
\* the value it returns is kept as the tool message would hold it
Analyze ==
    /\ pc = "analyze"
    /\ \E r \in {Invoke("analyze_id_card_tool",
                        [image_path |-> Arg("str", "uploads/ktp.png")],
                        [verdict |-> AnalyzeBody(world), fault |-> FALSE], db)} :
          /\ pc' = "analyzed"
          /\ outcome' = IF r.exc # NoExc THEN "tool_error" ELSE ""
          /\ lastDispatch' = [outs |-> IF r.exc # NoExc THEN <<>>
                                       ELSE <<ToolMessage(Str(r.out), 1)>>,
                              n |-> 1]
          /\ db' = r.db
    /\ UNCHANGED <<steps, messages, nextId, analysis_result, final_response, stub, ncalls,
                   invoked, lastVerdict, reasonerCalls, routeOut, workflows, writer,
                   world>>

AnalyzeNext == Analyze

AnalyzeSpec == AnalyzeInit /\ [][AnalyzeNext]_vars

(* ------------------------------- claims ------------------------------- *)
IsPrefix(a, b) == Len(a) <= Len(b) /\ SubSeq(b, 1, Len(a)) = a

\* a run is over: the caller has its response
Done == pc = "done"

\* C1: a run never executes more than RecursionLimit agent/tool supersteps and
\* always reaches the terminal state; a run whose Reasoner always emits tool
\* calls ends only by an abort, and by the budget abort exactly when
\* RecursionLimit supersteps have run.
C1_StepBudget ==
    /\ [](steps <= RecursionLimit)
    /\ [](Done =>
            /\ outcome \in {"budget", "tool_error"}
            /\ (outcome = "budget" <=> steps = RecursionLimit))
    /\ <>Done

C1_Witness ==
    /\ outcome = "budget"
    /\ steps = RecursionLimit
    /\ reasonerCalls = 8
    /\ Len(invoked) >= 7

\* C2 (as stated): when the step budget is exceeded the response to the caller
\* is the literal 'Agent did not produce a final response.'.
C2_Original == outcome = "budget" => final_response = Response("", DefaultResponse)

\* C2 (amended): when the step budget is exceeded the run is over and the
\* response to the caller is the error text "An error occurred: " followed by
\* the recursion-limit message, never a final answer and never the default text.
C2_BudgetResponse ==
    outcome = "budget" =>
        /\ Done
        /\ final_response = ErrorResponse(RecursionMsg)
        /\ final_response.prefix = ErrorPrefix
        /\ final_response.text \notin Contents \cup {DefaultResponse}

C2_Witness == outcome = "budget" /\ final_response # Response("", DefaultResponse)

\* C3: a Reasoner response is appended to history; one with no tool calls and
\* non-empty content ends the run with exactly that content as the response,
\* one with tool calls makes tool_node the next step; once the run has ended
\* no Reasoner invocation and no tool invocation follows.
C3_ReasoningStep ==
    [][ /\ (pc = "agent" /\ messages' # messages) =>
             LET m == messages'[Len(messages')]
             IN  /\ messages' = Append(messages, m)
                 /\ m.type = "ai"
                 /\ reasonerCalls' = reasonerCalls + 1
                 /\ (m.tool_calls = <<>> /\ m.content.text # "" =>
                        /\ Done'
                        /\ final_response' = Response("", m.content.text))
                 /\ (m.tool_calls # <<>> =>
                        /\ pc' = "tools"
                        /\ final_response' = final_response)
        /\ (Done => reasonerCalls' = reasonerCalls /\ invoked' = invoked) ]_vars

C3_Witness ==
    /\ Done
    /\ outcome = "answer"
    /\ final_response = Response("", "Laporan akhir.")
    /\ Len(invoked) > 0

\* the tool messages of msgs answer the calls of batch one by one, in order
Answers(msgs, batch) ==
    /\ Len(msgs) = Len(batch)
    /\ \A i \in 1..Len(batch) :
         msgs[i].type = "tool" /\ msgs[i].tool_call_id = batch[i].id

\* every tool call of history is followed by its batch's results
RECURSIVE AllAnswered(_)
AllAnswered(msgs) ==
    IF msgs = <<>> THEN TRUE
    ELSE LET m == Head(msgs)
             n == Len(m.tool_calls)
         IN  IF n = 0 THEN AllAnswered(Tail(msgs))
             ELSE /\ Len(msgs) >= 1 + n
                  /\ Answers(SubSeq(msgs, 2, 1 + n), m.tool_calls)
                  /\ AllAnswered(SubSeq(msgs, 2 + n, Len(msgs)))

\* C4: a tool_node step that completes appends to history exactly one tool
\* message per call of the latest Reasoner response, each with the id of its
\* call, in the order of the calls; whenever the Reasoner is due, every tool
\* call in history has its result.
C4_DispatchResults ==
    [][ /\ (pc = "tools" /\ pc' = "agent") =>
             LET batch == messages[Len(messages)].tool_calls
             IN  /\ IsPrefix(messages, messages')
                 /\ Answers(SubSeq(messages', Len(messages) + 1, Len(messages')), batch)
        /\ (pc' = "agent" => AllAnswered(messages')) ]_vars

C4_Witness ==
    /\ pc = "agent"
    /\ Len(messages) = 4
    /\ messages[2].tool_calls # <<>>
    /\ messages[3].tool_call_id = 1
    /\ messages[4].tool_call_id = 2

Batch == messages[Len(messages)].tool_calls

\* a tool_node step: the node ran to its end or ended with an exception
Dispatched == pc = "tools" /\ pc' # "tools"

\* the capability invocations made by the step
NewInvocations == SubSeq(invoked', Len(invoked) + 1, Len(invoked'))

\* the `data` argument of an insert call is a string that does not parse
Unparsable(call) ==
    DataIsStr(call) /\ LiteralEval(call.args["data"].val).kind # "value"

\* C6: when tool_node comes to an insert call whose `data` string cannot be
\* parsed it does not invoke the tool for it, puts a tool message with the
\* call's id and the malformed-argument error into tool_outputs, and goes on
\* to the next call of the batch.
C6_MalformedData ==
    [][ Dispatched =>
          \A i \in 1..Len(Batch) :
             (Unparsable(Batch[i]) /\ lastDispatch'.n >= i) =>
                /\ \A k \in 1..Len(NewInvocations) : NewInvocations[k].id # Batch[i].id
                /\ \E j \in 1..Len(lastDispatch'.outs) :
                      lastDispatch'.outs[j]
                          = ToolMessage(TextOf(MalformedMsg), Batch[i].id)
                /\ (i < Len(Batch) => lastDispatch'.n >= i + 1) ]_vars

\* C7: a tool_node step on a batch whose tool names all resolve completes,
\* whatever the arguments: every call gets a tool message in history and the
\* agent node is next.
C7_NoFailureCrosses ==
    [][ (Dispatched /\ \A i \in 1..Len(Batch) : Batch[i].name \in tools) =>
          /\ pc' = "agent"
          /\ Answers(SubSeq(messages', Len(messages) + 1, Len(messages')), Batch) ]_vars

\* the name of a tool that is not registered
UnknownTool == "send_sms_tool"

\* the index of the first call of the batch with the unregistered name
FirstUnknown(batch) ==
    CHOOSE i \in 1..Len(batch) :
        /\ batch[i].name = UnknownTool
        /\ \A k \in 1..(i - 1) : batch[k].name # UnknownTool

\* C8: a tool_node step on a batch with an unregistered tool name ends the
\* run at once with a textual error response: history gets nothing, no call
\* from the unregistered one on is invoked, and nothing is invoked afterwards.
C8_UnknownToolFatal ==
    [][ /\ (Dispatched /\ \E i \in 1..Len(Batch) : Batch[i].name = UnknownTool) =>
             LET u == FirstUnknown(Batch)
             IN  /\ Done'
                 /\ outcome' = "tool_error"
                 /\ final_response'.prefix = ErrorPrefix
                 /\ messages' = messages
                 /\ reasonerCalls' = reasonerCalls
                 /\ lastDispatch'.n <= u
                 /\ \A k \in 1..Len(NewInvocations) :
                        \E i \in 1..(u - 1) : NewInvocations[k].id = Batch[i].id
                 /\ (lastDispatch'.n = u =>
                        final_response' = ErrorResponse(ToolNotFoundMsg))
        /\ (Done => /\ reasonerCalls' = reasonerCalls
                    /\ invoked' = invoked
                    /\ final_response' = final_response) ]_vars

C8_Witness ==
    /\ Done
    /\ final_response = ErrorResponse(ToolNotFoundMsg)
    /\ Len(invoked) >= 1
    /\ lastDispatch.n = 2

\* C9: analysis_result is present in the graph state exactly when an analysis
\* invocation has completed, and then equals the output of the latest one.
C9_LastAnalysis ==
    /\ (analysis_result # Missing <=> lastVerdict # Missing)
    /\ (analysis_result # Missing => analysis_result = lastVerdict)

\* the status tag of the analysis_result key, "" when there is none
StatusOf(result) ==
    IF result.kind = "dict" /\ "status" \in DOMAIN result.dict
    THEN result.dict.status ELSE ""

\* C10: router gives the duplicate-check step for status success, the
\* fraud-notify step for potential_fraud and image_quality_failure, and the
\* agent step when the state has no verdict.
C10_Route ==
    routeOut # "none" =>
        /\ (StatusOf(analysis_result) = "success" =>
                routeOut = "check_duplicate_nik_tool")
        /\ (StatusOf(analysis_result) \in {"potential_fraud", "image_quality_failure"} =>
                routeOut = "notify_fraud_tool")
        /\ (analysis_result = Missing => routeOut = "agent")

C10_Witness ==
    /\ routeOut = "notify_fraud_tool"
    /\ StatusOf(analysis_result) = "image_quality_failure"

\* C11: router is total: on a state whose verdict is missing, None, has status
\* error, or has any other or no status, it returns the agent step
\* (continue_loop) without raising.
C11_RouteTotal ==
    (/\ routeOut # "none"
     /\ StatusOf(analysis_result)
            \notin {"success", "potential_fraud", "image_quality_failure"})
        => routeOut = "agent"

\* the step analyze_id_card_tool was invoked in
AnalysisRan ==
    \E k \in 1..Len(NewInvocations) : NewInvocations[k].name = "analyze_id_card_tool"

\* C12: after a tool_node step in which analyze_id_card_tool ran, the next
\* step of the workflow is the one router gives for the captured verdict.
C12_RouterDecides ==
    [][ (Dispatched /\ AnalysisRan /\ ~Done') => pc' = router(lastVerdict') ]_vars

\* C13: once analyze_id_card_tool has returned a verdict with status
\* image_quality_failure, no tool is invoked any more.
C13_QualityFailureStops ==
    [][ StatusOf(lastVerdict) = "image_quality_failure" => invoked' = invoked ]_vars

\* the call of a run that starts with one insert call, and its `data` argument
InsertCall == messages[2].tool_calls[1]
InsertArg == InsertCall.args["data"]

\* the output a completed tool_node step put into the tool message of call i,
\* [status |-> "none"] when that message holds a text
OutOf(outs, i) ==
    IF i <= Len(outs) /\ "repr" \in DOMAIN outs[i].content
    THEN outs[i].content.repr ELSE [status |-> "none"]

\* the rejection of the mapper that names the columns cols
Rejection(cols) ==
    [status |-> "error",
     error |-> Fmt("After parsing, required fields are still missing: ", cols)]

\* the required fields of an extraction result (all but the blood type)
RequiredFields == FieldNames \ {"Gol. Darah"}

\* the columns a field of the extraction result goes to
ColumnsOf(k) ==
    IF k = BirthKey THEN <<"tempat_lahir", "tanggal_lahir">>
    ELSE <<CHOOSE c \in DOMAIN KeyMapping : KeyMapping[c] = k>>

\* C16: an insert call whose data is a valid extraction result with one
\* required field removed completes with the rejection that names exactly
\* the columns of that field.
C16_MissingNamesField ==
    \A k \in RequiredFields :
        (pc # "tools" /\ InsertArg = Arg("dict", "without " \o k)) =>
            /\ pc = "agent"
            /\ OutOf(lastDispatch.outs, 1) = Rejection(ColumnsOf(k))

\* C17: a tool_node step on an insert call whose result is not success leaves
\* the store as it was; one whose result is success adds exactly one record,
\* with an identity number the store did not hold, and keeps every record
\* the store held.
C17_AllOrNothing ==
    [][ Dispatched =>
          IF pc' = "agent" /\ OutOf(lastDispatch'.outs, 1).status = "success"
          THEN /\ db \subseteq db'
               /\ Cardinality(db' \ db) = 1
               /\ \A new \in db' \ db :
                    /\ \A r \in db : r["nik"] # new["nik"]
                    /\ OutOf(lastDispatch'.outs, 1).message.nik = new["nik"]
          ELSE db' = db ]_vars

C17_Witness ==
    /\ pc = "agent"
    /\ OutOf(lastDispatch.outs, 1).status = "success"
    /\ Cardinality(db) = 2

\* the text of s before the first c (all of s when there is none), and after it
Before(s, c) ==
    LET i == FindFrom(s, c, 1) IN IF i = 0 THEN s ELSE SubSeq(s, 1, i - 1)
After(s, c) ==
    LET i == FindFrom(s, c, 1) IN IF i = 0 THEN <<>> ELSE SubSeq(s, i + 1, Len(s))

\* the insert call's data is a mapping that is a valid extraction result
\* except for field k, which holds a non-empty text
TextCase(k) ==
    /\ InsertArg.type = "dict"
    /\ LET d == DictOf(InsertArg.val)
       IN  /\ k \in DOMAIN d /\ d[k].t = "str" /\ d[k].s # <<>>
           /\ \E n \in NIKs : Without(d, k) = Without(ValidFields(n), k)

\* the results the database gives after the mapper has passed a record on
NotStored ==
    { [status |-> "error", error |-> Fmt(NikExistsMsg, <<>>)],
      [status |-> "error", error |-> Fmt("database error", <<>>)] }

\* C18 (as stated): a birthplace/date text without a comma does not fail the
\* mapper: the record has the whole text as birthplace and a null birth
\* date; with a comma the birthplace is the text before the first comma and
\* the birth date the text after it.
C18_Original ==
    [][ (Dispatched /\ TextCase(BirthKey)) =>
          LET b == DictOf(InsertArg.val)[BirthKey].s
              out == OutOf(lastDispatch'.outs, 1)
          IN  /\ pc' = "agent"
              /\ out.status = "success" \/ out \in NotStored
              /\ out.status = "success" =>
                   \A new \in db' \ db :
                      /\ new["tempat_lahir"] = S(Strip(Before(b, ",")))
                      /\ new["tanggal_lahir"] =
                            IF FindFrom(b, ",", 1) = 0 THEN None
                            ELSE S(Strip(After(b, ","))) ]_vars

\* C18 (amended): the birthplace/date split never fails on a text: the
\* birthplace is the stripped text before the first comma and the birth date
\* the stripped text between the first and the second comma (to the end when
\* there is one comma). Both are required columns: when one is empty, as the
\* birth date is for a text without a comma, the call is rejected naming the
\* empty ones and the store is unchanged; otherwise the record handed to the
\* database holds the two texts.
C18_BirthSplit ==
    [][ (Dispatched /\ TextCase(BirthKey)) =>
          LET b == DictOf(InsertArg.val)[BirthKey].s
              place == Strip(Before(b, ","))
              date == Strip(Before(After(b, ","), ","))
              missing == SelectSeq(<<"tempat_lahir", "tanggal_lahir">>,
                                   LAMBDA c : IF c = "tempat_lahir" THEN place = <<>>
                                              ELSE date = <<>>)
              out == OutOf(lastDispatch'.outs, 1)
          IN  /\ pc' = "agent"
              /\ out # [status |-> "error", error |-> Fmt(BirthParseMsg, <<>>)]
              /\ missing # <<>> => out = Rejection(missing) /\ db' = db
              /\ missing = <<>> =>
                   /\ out.status = "success" \/ out \in NotStored
                   /\ out.status = "success" =>
                        \A new \in db' \ db :
                           /\ new["tempat_lahir"] = S(place)
                           /\ new["tanggal_lahir"] = S(date) ]_vars

C18_Witness ==
    /\ pc = "agent"
    /\ InsertArg = Arg("dict", "dictNoComma")
    /\ OutOf(lastDispatch.outs, 1) = Rejection(<<"tanggal_lahir">>)
    /\ db = {}

\* index of the first whitespace character of s from i on, 0 when there is none
RECURSIVE FindSpace(_, _)
FindSpace(s, i) ==
    IF i > Len(s) THEN 0 ELSE IF IsSpace(s[i]) THEN i ELSE FindSpace(s, i + 1)

CreationKey == "Place and Date of Creation"

\* C19: the place/date of creation text is split at its first whitespace run
\* into the place and the date; a text without whitespace does not fail the
\* call: the record has the text as place and a null date of creation.
C19_CreationSplit ==
    [][ (Dispatched /\ TextCase(CreationKey)) =>
          LET c == DictOf(InsertArg.val)[CreationKey].s
              i == FindSpace(c, 1)
              out == OutOf(lastDispatch'.outs, 1)
          IN  /\ pc' = "agent"
              /\ out.status = "success" \/ out \in NotStored
              /\ out.status = "success" =>
                   \A new \in db' \ db :
                      /\ new["place_of_creation"] =
                            S(IF i = 0 THEN c ELSE SubSeq(c, 1, i - 1))
                      /\ Get(new, "date_of_creation") =
                            IF i = 0 THEN None
                            ELSE S(LStrip(SubSeq(c, i + 1, Len(c)))) ]_vars

\* history with the `data` argument of the latest response's call i replaced
WithData(msgs, i, arg) ==
    [msgs EXCEPT ![Len(msgs)].tool_calls[i].args["data"] = arg]

Inserted(w) == workflows[w].pc = "done"

\* the two requests insert the same identity number
SameNik == NikOf(workflows[1].data) = NikOf(workflows[2].data)

Successes == {w \in Requests : Inserted(w) /\ workflows[w].insert.status = "success"}
Conflicts ==
    {w \in Requests :
        /\ Inserted(w)
        /\ workflows[w].insert = [status |-> "error", error |-> Fmt(NikExistsMsg, <<>>)]}
DbErrors ==
    {w \in Requests :
        /\ Inserted(w)
        /\ workflows[w].insert = [status |-> "error", error |-> Fmt("database error", <<>>)]}

OnePerNik == \A r1, r2 \in db : r1["nik"] = r2["nik"] => r1 = r2

\* request w makes its duplicate check in this step
Checks(w) == workflows[w].pc = "start" /\ workflows'[w].pc = "checked"

\* a record with the identity number of request w is in the store
Stored(w) == \E r \in db : r["nik"] = S(Text(NikOf(workflows[w].data)))

C22_OneTextResponse ==
    [][ /\ pc' \in {"agent", "tools", "done"}
        /\ steps' > steps \/ Done'
        /\ Done' =>
             /\ outcome' \in {"answer", "silent", "budget", "tool_error", "reasoner_error"}
             /\ outcome' = "answer" =>
                  /\ final_response'.prefix = ""
                  /\ final_response'.text \in Contents \ {""}
             /\ outcome' = "silent" => final_response' = Response("", DefaultResponse)
             /\ outcome' \in {"budget", "tool_error", "reasoner_error"} =>
                  /\ final_response'.prefix = ErrorPrefix
                  /\ final_response'.text
                       \in {RecursionMsg, ToolNotFoundMsg, ValidationMsg, ReasonerMsg,
                            ParseRaisedMsg, AttributeMsg}
             /\ outcome' = "reasoner_error" => final_response' = ErrorResponse(ReasonerMsg)
        /\ Done => final_response' = final_response /\ Done' ]_vars

C22_Witness ==
    /\ Done
    /\ outcome = "reasoner_error"
    /\ final_response = ErrorResponse(ReasonerMsg)
    /\ Len(invoked) > 0

\* C23: the analysis result of the state and the output held as the latest
\* analysis change only in a tool_node step that invoked analyze_id_card_tool:
\* agent steps, steps that dispatch only other tools and skipped malformed
\* insert calls leave them as they are.
C23_OnlyAnalysisWrites ==
    [][ (analysis_result' # analysis_result \/ lastVerdict' # lastVerdict) =>
           /\ pc = "tools"
           /\ AnalysisRan
           /\ LET outs == lastDispatch'.outs
                  last == CHOOSE i \in 1..Len(outs) :
                             /\ Batch[i].name = "analyze_id_card_tool"
                             /\ \A k \in (i + 1)..Len(outs) :
                                  Batch[k].name # "analyze_id_card_tool"
              IN  lastVerdict' = Dict(OutOf(outs, last))
      ]_vars

C23_Witness ==
    /\ Len(invoked) = 2
    /\ invoked[1].name = "analyze_id_card_tool"
    /\ invoked[2].name = "check_duplicate_nik_tool"
    /\ lastVerdict = Dict([status |-> "success", data |-> "dictA"])
    /\ pc = "agent"

\* C25: a tool_node step either completes and appends one tool message for
\* every call of the batch, or ends with an exception and appends nothing;
\* in both cases the store keeps what the invoked tools did to it.
C25_BatchAtomic ==
    [][ (Dispatched /\ outcome' # "budget") =>
          /\ \/ /\ pc' = "agent"
                /\ IsPrefix(messages, messages')
                /\ Answers(SubSeq(messages', Len(messages) + 1, Len(messages')), Batch)
             \/ /\ Done'
                /\ outcome' = "tool_error"
                /\ messages' = messages
          /\ db \subseteq db'
          /\ \A rec \in db' \ db :
               \E k \in 1..Len(NewInvocations) :
                  /\ NewInvocations[k].name = "insert_id_card_tool"
                  /\ NewInvocations[k].args["data"].type = "dict"
                  /\ rec = Mapped[NewInvocations[k].args["data"].val].rec ]_vars

C25_Witness ==
    /\ Done
    /\ final_response = ErrorResponse(ToolNotFoundMsg)
    /\ Len(messages) = 2
    /\ Len(messages[2].tool_calls) = 2
    /\ db # {}

\* C26: a Reasoner response without tool calls and with empty content ends
\* the run with the default text as the response, and after the end of a
\* run the Reasoner and the tools are not invoked again.
C26_SilentEnd ==
    [][ /\ (/\ pc = "agent"
            /\ messages' # messages
            /\ messages'[Len(messages')].tool_calls = <<>>
            /\ messages'[Len(messages')].content.text = "") =>
               /\ Done'
               /\ outcome' = "silent"
               /\ final_response' = Response("", DefaultResponse)
        /\ outcome = "silent" =>
               /\ reasonerCalls' = reasonerCalls
               /\ invoked' = invoked
               /\ final_response' = final_response ]_vars

C26_Witness ==
    /\ Done
    /\ outcome = "silent"
    /\ final_response = Response("", DefaultResponse)
    /\ Len(invoked) > 0
    /\ messages[Len(messages)].type = "ai"

\* C24: every invocation of insert_id_card_tool gets a mapping as `data`; a
\* call whose `data` is a string is either invoked with the mapping the
\* string parses to, or skipped: not invoked, and answered by the
\* malformed-argument tool message.
C24_MappingPassed ==
    [][ (Dispatched /\ outcome' # "budget") =>
          /\ \A k \in 1..Len(NewInvocations) :
               NewInvocations[k].name = "insert_id_card_tool" =>
                   NewInvocations[k].args["data"].type = "dict"
          /\ \A i \in 1..Len(Batch) :
               (DataIsStr(Batch[i]) /\ lastDispatch'.n >= i) =>
                  \/ \E k \in 1..Len(NewInvocations) :
                        /\ NewInvocations[k].id = Batch[i].id
                        /\ NewInvocations[k].args["data"].type = "dict"
                  \/ /\ \A k \in 1..Len(NewInvocations) :
                          NewInvocations[k].id # Batch[i].id
                     /\ \E j \in 1..Len(lastDispatch'.outs) :
                          lastDispatch'.outs[j]
                              = ToolMessage(TextOf(MalformedMsg), Batch[i].id) ]_vars

\* the world has an internal error: no file, no model, an unreadable image, a
\* failing model call, or an answer that is not JSON text
InternalError(w) ==
    \/ ~w.exists \/ ~w.init \/ ~w.image
    \/ w.reply.kind \in {"raise", "parts"}
    \/ ~Cleaned(w.reply.text).json

\* C21: every call of the analysis tool returns a value, never raises; the
\* value has a status that is one of success, potential_fraud,
\* image_quality_failure and error, it has the extracted data exactly when
\* the status is success, and the status is error on every internal error.
C21_FailClosed ==
    pc = "analyzed" =>
        /\ outcome # "tool_error"
        /\ LET out == OutOf(lastDispatch.outs, 1)
           IN  /\ "status" \in DOMAIN out
               /\ out.status \in {"success", "potential_fraud", "image_quality_failure",
                                  "error"}
               /\ "data" \in DOMAIN out <=> out.status = "success"
               /\ InternalError(world) => out.status = "error"

====
